---- MODULE Spec2Model ----
(***************************************************************************)
(* Payment event pipeline of the GoldsPay dashboard: the create-payment    *)
(* edge function (supabase/functions/create-payment-stripe/index.ts), the  *)
(* Stripe webhook edge function (supabase/functions/stripe-webhook/        *)
(* index.ts) and the tables of the schema load file they read and write.   *)
(*                                                                         *)
(* The webhook handler is a chain of awaited store calls; it is modelled   *)
(* by one action per awaited segment, so that requests in flight           *)
(* interleave where the runtime can interleave them.                       *)
(*                                                                         *)
(* Money is a numeric column in BRL; the model represents it in hundredths *)
(* (10001 stands for 100.01), which is also the integer amount the code    *)
(* sends to the provider (Math.round(amount * 100)).                       *)
(***************************************************************************)
EXTENDS Integers, Sequences, FiniteSets, TLC

\* ------------------------------------------------------------------ bounds
MaxIntents    == 1   \* payment intents created at the provider
MaxRequests   == 2   \* webhook requests in flight at the same time
MaxDeliveries == 2   \* webhook requests received in one behaviour
MaxEvents     == 2   \* distinct events the provider emits
MaxClock      == 1   \* last reading of the wall clock
MaxDomainEvents == 2 \* domain events enqueued for outbound dispatch

\* ------------------------------------------------------------ vocabulary
NULL == -1           \* SQL NULL / a missing value

\* a payment intent of the provider account that no create-payment request
\* made (another integration's), as events can name one
ForeignRef == 0

Slots   == 1..MaxRequests
Refs    == 1..MaxIntents
Endpoints == {"e1", "e2"}   \* rows of table webhooks
Users   == {"u1"}
Amounts == {10000, 10001}

\* admin_settings platform_fee_percentage '2.5', in thousandths
platform_fee_permille == 25

\* event.type values: the five cases of the switch and one unhandled type
EventTypes ==
  {"payment_intent.succeeded", "payment_intent.payment_failed",
   "payment_intent.canceled", "charge.refunded", "charge.dispute.created",
   "customer.created"}

\* every event type runs an update: the switch has no default branch
HandledTypesAll == EventTypes

\* the types the switch has a case for
HandledTypes == EventTypes \ {"customer.created"}

\* paymentIntent.status values the provider can report for a new intent
ProviderStatuses ==
  {"succeeded", "processing", "requires_payment_method",
   "requires_confirmation", "canceled", "payment_failed", "requires_action"}

\* rows psp_configurations can hold for psp_name = 'stripe'
Configs ==
  { [exists |-> FALSE, is_active |-> FALSE, api_key_secret |-> FALSE, webhook_secret |-> FALSE] }
  \cup
  { [exists |-> TRUE, is_active |-> a, api_key_secret |-> k, webhook_secret |-> w] :
      a \in BOOLEAN, k \in BOOLEAN, w \in BOOLEAN }

VARIABLES
  config,        \* the psp_configurations row of stripe
  now,           \* the last reading of the wall clock (new Date())
  intents,       \* payment intents that exist at the provider
  events,        \* events the provider has emitted; an event's id is its index
  transactions,  \* table transactions, a sequence of rows
  fees,          \* table fees
  wallets,       \* table wallets, one row per user
  activity_logs, \* table activity_logs: per event id, the rows that carry it
  applied,       \* per event id, the updates of it that changed a row
  pay,           \* the last create-payment request: its Authorization, its response
  reqs,          \* the webhook requests per runtime slot
  served,        \* number of webhook requests received so far
  webhooks,      \* table webhooks: per merchant endpoint, its active flag
  webhook_deliveries, \* table webhook_deliveries: per endpoint, its rows
  queues,        \* per endpoint, the domain events awaiting delivery
  enqueued       \* number of domain events enqueued so far

\* the state of the outbound dispatch
outbound == <<webhooks, webhook_deliveries, queues, enqueued>>

vars == <<config, now, intents, events, transactions, fees, wallets,
          activity_logs, applied, pay, reqs, served, outbound>>

\* ------------------------------------------------------ create-payment
\* the status chain with every transaction inserted as pending
transactionStatusPending(providerStatus) == "pending"

\* the status chain without its canceled branch
transactionStatusNoCanceled(providerStatus) ==
  IF providerStatus = "succeeded" THEN "paid"
  ELSE IF providerStatus = "processing" THEN "processing"
  ELSE IF providerStatus \in {"requires_payment_method", "requires_confirmation"} THEN "pending"
  ELSE IF providerStatus = "payment_failed" THEN "failed"
  ELSE "pending"

\* the status chain of create-payment-stripe/index.ts
transactionStatus(providerStatus) ==
  IF providerStatus = "succeeded" THEN "paid"
  ELSE IF providerStatus = "processing" THEN "processing"
  ELSE IF providerStatus \in {"requires_payment_method", "requires_confirmation"} THEN "pending"
  ELSE IF providerStatus = "canceled" THEN "cancelled"
  ELSE IF providerStatus = "payment_failed" THEN "failed"
  ELSE "pending"

\* the row create-payment inserts; the columns it does not name take the
\* defaults of CREATE TABLE transactions.  gateway_response is the payment
\* intent as the provider returned it: no event (0), and its status st.
NewTransaction(user, amount, intent, st) ==
  [user_id |-> user, amount |-> amount,
   gateway_transaction_id |-> intent,
   gateway_response |-> [event |-> 0, kind |-> st],
   status |-> transactionStatus(st), fee_amount |-> 0, net_amount |-> NULL,
   settled_at |-> NULL, refunded_at |-> NULL]

\* the checks without the two on the Authorization header
payRejectedNoAuth(auth, cfg) ==
  \/ ~cfg.exists \/ ~cfg.is_active
  \/ ~cfg.api_key_secret

\* the checks that throw before any provider call
payRejected(auth, cfg) ==
  \/ auth # "ok"
  \/ ~cfg.exists \/ ~cfg.is_active
  \/ ~cfg.api_key_secret

\* The whole create-payment handler.
\* auth: the Authorization header and what it resolves to; providerOk: the
\* provider calls return instead of throwing; st: the status of the new
\* intent; dbError: the store answers the insert with an error.
CreatePayment ==
  /\ \E auth \in {"no_header", "no_user", "ok"} :
       IF payRejected(auth, config)
       THEN /\ pay' = [auth |-> auth, status |-> 400]
            /\ UNCHANGED <<intents, transactions>>
       ELSE \E providerOk \in BOOLEAN :
              IF ~providerOk
              THEN /\ pay' = [auth |-> auth, status |-> 400]
                   /\ UNCHANGED <<intents, transactions>>
              ELSE LET id == Cardinality(intents) + 1 IN
                   /\ Cardinality(intents) < MaxIntents
                   /\ intents' = intents \cup {id}
                   /\ \E dbError \in BOOLEAN :
                        IF dbError
                        THEN /\ pay' = [auth |-> auth, status |-> 400]
                             /\ UNCHANGED transactions
                        ELSE \E amount \in Amounts, st \in ProviderStatuses :
                               /\ pay' = [auth |-> auth, status |-> 200]
                               /\ transactions' =
                                    Append(transactions,
                                           NewTransaction("u1", amount, id, st))
  /\ UNCHANGED <<config, now, events, fees, wallets, activity_logs, applied, reqs, served>>
  /\ UNCHANGED outbound

\* -------------------------------------------------------- stripe-webhook
\* a slot that has served nothing yet
ReqIdle == [pc |-> "idle", sig |-> "none", ev |-> NULL, error |-> FALSE, resp |-> 0]

\* the slot can take a request: it never served one, or it has responded
free(r) == r.pc \in {"idle", "done"}

\* stripe.webhooks.constructEvent(body, signature, secret): returns the event
\* when the signature verifies against the raw body, throws otherwise
constructEvent(sig) == IF sig = "valid" THEN "event" ELSE "throw"

\* obtainEvent with the catch of the verification not returning: the handler
\* goes on to parse the body
obtainEventNoReturn(cfg, sig, wellFormed) ==
  IF ~cfg.exists \/ ~cfg.api_key_secret THEN "500"
  ELSE IF cfg.webhook_secret /\ sig # "none" /\ constructEvent(sig) = "event"
       THEN "event"
       ELSE IF wellFormed THEN "event" ELSE "500"

\* how the handler obtains the event, or the response it gives up with:
\*   "event" - the event is handed to the switch
\*   "400"   - signature verification threw
\*   "500"   - the handler threw into the outer catch
obtainEvent(cfg, sig, wellFormed) ==
  IF ~cfg.exists \/ ~cfg.api_key_secret THEN "500"
  ELSE IF cfg.webhook_secret /\ sig # "none"
       THEN IF constructEvent(sig) = "event" THEN "event" ELSE "400"
       ELSE IF wellFormed THEN "event" ELSE "500"

\* the status each case of the switch writes
targetStatus(type) ==
  CASE type = "payment_intent.succeeded"      -> "paid"
    [] type = "payment_intent.payment_failed" -> "failed"
    [] type = "payment_intent.canceled"       -> "cancelled"
    [] type = "charge.refunded"               -> "refunded"
    [] type = "charge.dispute.created"        -> "chargeback"
    [] OTHER                                  -> "none"

\* the cases whose update carries new Date().toISOString()
stamps(type) == type \in {"payment_intent.succeeded", "charge.refunded"}

\* matching with the .eq filter left out: every row is selected
matchingAny(txns, ref) == DOMAIN txns

\* the rows .eq('gateway_transaction_id', ref) selects
matching(txns, ref) ==
  {t \in DOMAIN txns : txns[t].gateway_transaction_id = ref}

\* the update with its filter lost: the columns are written on every row
updateTransactionsAll(txns, type, id, ref, clock) ==
  [t \in DOMAIN txns |->
     [txns[t] EXCEPT
        !.status = targetStatus(type),
        !.gateway_response = [event |-> id, kind |-> type],
        !.settled_at = IF type = "payment_intent.succeeded" THEN clock ELSE @,
        !.refunded_at = IF type = "charge.refunded" THEN clock ELSE @]]

\* supabase.from('transactions').update({...}).eq('gateway_transaction_id', ref)
\* of the case for `type`: the columns that case names, on every matching
\* row; gateway_response becomes the object of event `id`
updateTransactions(txns, type, id, ref, clock) ==
  [t \in DOMAIN txns |->
     IF t \in matching(txns, ref)
     THEN [txns[t] EXCEPT
             !.status = targetStatus(type),
             !.gateway_response = [event |-> id, kind |-> type],
             !.settled_at = IF type = "payment_intent.succeeded" THEN clock ELSE @,
             !.refunded_at = IF type = "charge.refunded" THEN clock ELSE @]
     ELSE txns[t]]

\* what the stripe-signature header can be: absent, or present and then
\* verifying or not against the configured secret; without a configured
\* secret a header that is present is one no secret verifies
signatures(cfg) ==
  IF cfg.webhook_secret THEN {"none", "valid", "invalid"} ELSE {"none", "invalid"}

\* the runtime hands a request to the lowest free slot
takes(s) ==
  /\ free(reqs[s])
  /\ \A s2 \in Slots : s2 < s => ~free(reqs[s2])
  /\ served < MaxDeliveries
  /\ served' = served + 1

\* The CORS preflight is answered before anything is read.
Preflight(s) ==
  /\ takes(s)
  /\ reqs' = [reqs EXCEPT ![s] = [ReqIdle EXCEPT !.pc = "done", !.resp = 200]]
  /\ UNCHANGED <<config, now, intents, events, transactions, fees, wallets, activity_logs, applied, pay>>
  /\ UNCHANGED outbound

\* Configuration lookup, body read, signature branch.
\* sig: the stripe-signature header (absent, verifying, not verifying);
\* wellFormed: the body parses to an event carrying data.object;
\* ev: the event in the body, one the provider emitted before (a redelivery)
\* or its next one, of any type and about any payment intent.
Receive(s) ==
  /\ takes(s)
  /\ \E sig \in signatures(config), wellFormed \in BOOLEAN,
        ev \in 1..(Len(events) + 1) :
       /\ sig = "valid" => wellFormed
       /\ ev <= MaxEvents
       /\ LET got == obtainEvent(config, sig, wellFormed) IN
          IF got = "event"
          THEN /\ reqs' = [reqs EXCEPT ![s] =
                     [ReqIdle EXCEPT !.pc = "switch", !.sig = sig, !.ev = ev]]
               /\ IF ev <= Len(events)
                  THEN UNCHANGED events
                  ELSE \E type \in EventTypes, ref \in Refs \cup {ForeignRef, NULL} :
                         events' = Append(events, [type |-> type, ref |-> ref])
          ELSE /\ reqs' = [reqs EXCEPT ![s] =
                     [ReqIdle EXCEPT !.pc = "done", !.sig = sig,
                                     !.resp = IF got = "400" THEN 400 ELSE 500]]
               /\ UNCHANGED events
  /\ UNCHANGED <<config, now, intents, transactions, fees, wallets, activity_logs, applied, pay>>
  /\ UNCHANGED outbound

\* the switch with a refund case that debits the wallet of every matching
\* transaction's user by its amount, whatever the transaction's status
SwitchDebiting(s) ==
  /\ reqs[s].pc = "switch"
  /\ LET r == reqs[s]
         e == events[r.ev] IN
     IF e.type \in HandledTypes
     THEN \E dbError \in BOOLEAN,
             clock \in (IF stamps(e.type) THEN now..MaxClock ELSE {now}) :
            /\ now' = clock
            /\ IF dbError
               THEN /\ UNCHANGED <<transactions, applied, wallets>>
                    /\ reqs' = [reqs EXCEPT ![s].pc = "log", ![s].error = TRUE]
               ELSE /\ transactions' = updateTransactions(transactions, e.type, r.ev, e.ref, clock)
                    /\ applied' = IF matching(transactions, e.ref) = {} THEN applied
                                  ELSE [applied EXCEPT ![r.ev] = @ + 1]
                    /\ wallets' =
                         [u \in Users |->
                            IF /\ e.type = "charge.refunded"
                               /\ \E t \in matching(transactions, e.ref) :
                                    transactions[t].user_id = u
                            THEN [wallets[u] EXCEPT !.balance = @ - 10000]
                            ELSE wallets[u]]
                    /\ reqs' = [reqs EXCEPT ![s].pc = "log"]
     ELSE /\ UNCHANGED <<transactions, now, applied, wallets>>
          /\ reqs' = [reqs EXCEPT ![s].pc = "log"]
  /\ UNCHANGED <<config, intents, events, fees, activity_logs, pay, served>>
  /\ UNCHANGED outbound

\* The switch on event.type.  dbError: the store answers the update with an
\* error, which the handler only prints; clock: what new Date() reads, never
\* earlier than its last reading.
Switch(s) ==
  /\ reqs[s].pc = "switch"
  /\ LET r == reqs[s]
         e == events[r.ev] IN
     IF e.type \in HandledTypes
     THEN \E dbError \in BOOLEAN,
             clock \in (IF stamps(e.type) THEN now..MaxClock ELSE {now}) :
            /\ now' = clock
            /\ IF dbError
               THEN /\ UNCHANGED <<transactions, applied>>
                    /\ reqs' = [reqs EXCEPT ![s].pc = "log", ![s].error = TRUE]
               ELSE /\ transactions' = updateTransactions(transactions, e.type, r.ev, e.ref, clock)
                    /\ applied' = IF matching(transactions, e.ref) = {} THEN applied
                                  ELSE [applied EXCEPT ![r.ev] = @ + 1]
                    /\ reqs' = [reqs EXCEPT ![s].pc = "log"]
     ELSE /\ UNCHANGED <<transactions, now, applied>>
          /\ reqs' = [reqs EXCEPT ![s].pc = "log"]
  /\ UNCHANGED <<config, intents, events, fees, wallets, activity_logs, pay, served>>
  /\ UNCHANGED outbound

\* Log made to wait until every outbound queue is drained
LogAfterDispatch(s) ==
  /\ reqs[s].pc = "log"
  /\ \A e \in Endpoints : queues[e] = <<>>
  /\ activity_logs' = [activity_logs EXCEPT ![reqs[s].ev] = @ + 1]
  /\ reqs' = [reqs EXCEPT ![s] = [ReqIdle EXCEPT !.pc = "done", !.sig = reqs[s].sig,
                                                 !.resp = 200]]
  /\ UNCHANGED <<config, now, intents, events, transactions, fees, wallets, applied, pay, served>>
  /\ UNCHANGED outbound

\* The activity_logs insert, then the 200 response.
Log(s) ==
  /\ reqs[s].pc = "log"
  /\ activity_logs' = [activity_logs EXCEPT ![reqs[s].ev] = @ + 1]
  /\ reqs' = [reqs EXCEPT ![s] = [ReqIdle EXCEPT !.pc = "done", !.sig = reqs[s].sig,
                                                 !.resp = 200]]
  /\ UNCHANGED <<config, now, intents, events, transactions, fees, wallets, applied, pay, served>>
  /\ UNCHANGED outbound

\* ---------------------------------------------------------- specification
\* create_user_wallet(): the row the signup trigger inserts
NewWallet == [balance |-> 0, pending_balance |-> 0, blocked_balance |-> 0]

Init ==
  /\ config \in Configs
  /\ now = 0
  /\ intents = {}
  /\ events = <<>>
  /\ transactions = <<>>
  /\ fees = {}
  /\ wallets = [u \in Users |-> NewWallet]
  /\ activity_logs = [e \in 1..MaxEvents |-> 0]
  /\ applied = [e \in 1..MaxEvents |-> 0]
  /\ pay = [auth |-> "none", status |-> 0]
  /\ reqs = [s \in Slots |-> ReqIdle]
  /\ served = 0
  /\ webhooks = [e \in Endpoints |-> TRUE]
  /\ webhook_deliveries = [e \in Endpoints |-> <<>>]
  /\ queues = [e \in Endpoints |-> <<>>]
  /\ enqueued = 0

Next ==
  \/ CreatePayment
  \/ \E s \in Slots : Preflight(s)
  \/ \E s \in Slots : Receive(s)
  \/ \E s \in Slots : Switch(s)
  \/ \E s \in Slots : Log(s)

Spec == Init /\ [][Next]_vars

\* ------------------------------------------------ two stored transactions
\* The webhook handler from the state in which the integration is fully
\* configured and two create-payment requests have each created an intent
\* and stored its transaction.
InitFrame ==
  /\ config = [exists |-> TRUE, is_active |-> TRUE, api_key_secret |-> TRUE,
               webhook_secret |-> TRUE]
  /\ now = 0
  /\ intents = {1, 2}
  /\ events = <<>>
  /\ \E st1, st2 \in {"requires_payment_method", "succeeded"} :
       transactions = << NewTransaction("u1", 10000, 1, st1),
                         NewTransaction("u1", 10001, 2, st2) >>
  /\ fees = {}
  /\ wallets = [u \in Users |-> NewWallet]
  /\ activity_logs = [e \in 1..MaxEvents |-> 0]
  /\ applied = [e \in 1..MaxEvents |-> 0]
  /\ pay = [auth |-> "ok", status |-> 200]
  /\ reqs = [s \in Slots |-> ReqIdle]
  /\ served = 0
  /\ webhooks = [e \in Endpoints |-> TRUE]
  /\ webhook_deliveries = [e \in Endpoints |-> <<>>]
  /\ queues = [e \in Endpoints |-> <<>>]
  /\ enqueued = 0

SpecFrame == InitFrame /\ [][Next]_vars

\* --------------------------------------------------- outbound dispatcher
\* The repository declares the tables of outbound delivery (webhooks,
\* webhook_deliveries) but holds no code that reads or writes them; the
\* dispatcher below is the one its specification describes (section 4.4, 5).

\* the maximum attempt count of the retry policy
MaxAttempts == 4

\* what an attempt ends with: a 2xx status, a non-2xx status, a timeout
Responses == {200, 500, NULL}

\* a row of webhook_deliveries as the column defaults make it: attempts
\* DEFAULT 0 instead of 1
NewDeliveryFromZero(ev) ==
  [event |-> ev, attempts |-> 0, response_status |-> NULL, delivered |-> FALSE]

\* a row of webhook_deliveries as the column defaults make it
NewDelivery(ev) ==
  [event |-> ev, attempts |-> 1, response_status |-> NULL, delivered |-> FALSE]

\* the outcome of an attempt written to its row
recorded(d, status) ==
  [d EXCEPT !.response_status = status, !.delivered = (status = 200)]

\* the maximum attempt count is exhausted without a 2xx
failed(d) == ~d.delivered /\ d.attempts >= MaxAttempts

\* any queued event may be attempted
dueAny(q) == {q[i] : i \in DOMAIN q}

\* the events of a queue that may be attempted now: its head
due(q) == {Head(q)}

\* attempts are issued whether or not the endpoint is active
canAttemptInactive(e) == queues[e] # <<>>

\* an attempt is issued only to an active endpoint with a queued event
canAttempt(e) == webhooks[e] /\ queues[e] # <<>>

\* A state-changing application hands one domain event to the queue of every
\* active endpoint; events are numbered in the order they are enqueued.
Enqueue ==
  /\ enqueued < MaxDomainEvents
  /\ enqueued' = enqueued + 1
  /\ queues' = [e \in Endpoints |->
                  IF webhooks[e] THEN Append(queues[e], enqueued + 1) ELSE queues[e]]
  /\ UNCHANGED <<webhooks, webhook_deliveries>>
  /\ UNCHANGED <<config, now, intents, events, transactions, fees, wallets,
                 activity_logs, applied, pay, reqs, served>>

\* One delivery attempt to endpoint e, with its outcome recorded; the event
\* leaves the queue once it is delivered or its attempts are exhausted.
Attempt(e) ==
  /\ canAttempt(e)
  /\ \E ev \in due(queues[e]), status \in Responses :
       LET rows  == webhook_deliveries[e]
           known == {i \in DOMAIN rows : rows[i].event = ev}
           rows2 == IF known = {}
                    THEN Append(rows, recorded(NewDelivery(ev), status))
                    ELSE [i \in DOMAIN rows |->
                            IF i \in known
                            THEN recorded([rows[i] EXCEPT !.attempts = @ + 1], status)
                            ELSE rows[i]]
           d     == rows2[CHOOSE i \in DOMAIN rows2 : rows2[i].event = ev]
       IN /\ webhook_deliveries' = [webhook_deliveries EXCEPT ![e] = rows2]
          /\ queues' = [queues EXCEPT ![e] =
                          IF d.delivered \/ failed(d)
                          THEN SelectSeq(@, LAMBDA x : x # ev) ELSE @]
  /\ UNCHANGED <<webhooks, enqueued>>
  /\ UNCHANGED <<config, now, intents, events, transactions, fees, wallets,
                 activity_logs, applied, pay, reqs, served>>

\* The merchant deactivates endpoint e.
Deactivate(e) ==
  /\ webhooks[e]
  /\ webhooks' = [webhooks EXCEPT ![e] = FALSE]
  /\ UNCHANGED <<webhook_deliveries, queues, enqueued>>
  /\ UNCHANGED <<config, now, intents, events, transactions, fees, wallets,
                 activity_logs, applied, pay, reqs, served>>

\* the fully configured integration, before any request
InitOutbound ==
  /\ Init
  /\ config = [exists |-> TRUE, is_active |-> TRUE, api_key_secret |-> TRUE,
               webhook_secret |-> TRUE]

NextOutbound ==
  \/ Enqueue
  \/ \E e \in Endpoints : Attempt(e)
  \/ \E e \in Endpoints : Deactivate(e)

SpecOutbound == InitOutbound /\ [][NextOutbound]_vars

\* ------------------------------------------------------------ the pipeline
\* Both edge functions and the dispatcher side by side, from the state in
\* which the integration is fully configured, one preflight has been answered
\* and the merchant has deactivated the second endpoint.
InitPipeline ==
  /\ config = [exists |-> TRUE, is_active |-> TRUE, api_key_secret |-> TRUE,
               webhook_secret |-> TRUE]
  /\ now = 0
  /\ intents = {}
  /\ events = <<>>
  /\ transactions = <<>>
  /\ fees = {}
  /\ wallets = [u \in Users |-> NewWallet]
  /\ activity_logs = [e \in 1..MaxEvents |-> 0]
  /\ applied = [e \in 1..MaxEvents |-> 0]
  /\ pay = [auth |-> "none", status |-> 0]
  /\ reqs = [s \in Slots |->
              IF s = 1 THEN [ReqIdle EXCEPT !.pc = "done", !.resp = 200] ELSE ReqIdle]
  /\ served = 1
  /\ webhooks = [e \in Endpoints |-> e = "e1"]
  /\ webhook_deliveries = [e \in Endpoints |-> <<>>]
  /\ queues = [e \in Endpoints |-> <<>>]
  /\ enqueued = 0

NextPipeline == Next \/ NextOutbound

SpecPipeline == InitPipeline /\ [][NextPipeline]_vars

\* ------------------------------------------------------------ the claims
\* the transitions the transaction state machine lists
Edges ==
  { <<"pending", "processing">>, <<"processing", "paid">>,
    <<"processing", "failed">>, <<"pending", "cancelled">>,
    <<"paid", "refunded">>, <<"paid", "chargeback">> }

\* slot s runs the switch in this step
SwitchStep(s) == reqs[s].pc = "switch" /\ reqs'[s].pc = "log"

\* the event of slot s came with a signature that verified against the secret
Verified(s) == config.webhook_secret /\ reqs[s].sig = "valid"

\* the event slot s is processing
eventOf(s) == events[reqs[s].ev]

\* the rows present before the step are the same after it
RowsUnchanged == \A t \in DOMAIN transactions : transactions'[t] = transactions[t]

\* fee of the platform rate on an amount in minor units, rounded half-up
HalfUpFee(amount) == (amount * platform_fee_permille + 500) \div 1000

\* C1: every change of a transaction's status is one of the listed edges;
\* a step that processes any other (current, target) pair leaves the status
\* as it was and creates no Fee or Wallet record.
C1_OnlyListedEdges ==
  [][\A t \in DOMAIN transactions :
       transactions'[t].status # transactions[t].status =>
         /\ <<transactions[t].status, transactions'[t].status>> \in Edges
         /\ fees' = fees
         /\ wallets' = wallets]_vars

\* C2: a payment_intent.payment_failed event processed for a transaction
\* that is paid leaves the transaction paid.
C2_FailedAfterPaidKeepsPaid ==
  [][\A s \in Slots : \A t \in DOMAIN transactions :
       ( /\ SwitchStep(s)
         /\ Verified(s)
         /\ eventOf(s).type = "payment_intent.payment_failed"
         /\ t \in matching(transactions, eventOf(s).ref)
         /\ transactions[t].status = "paid" )
       => transactions'[t].status = "paid"]_vars

\* C3: while no webhook signing secret is configured, no event is applied:
\* the switch of no request changes a transaction row.
C3_FailClosedWithoutSecret ==
  [][\A s \in Slots :
       (~config.webhook_secret /\ SwitchStep(s)) => RowsUnchanged]_vars

\* C4 as stated: with a signing secret configured, a request whose signature
\* does not verify is answered 400, never reaches the switch and changes no
\* transaction row.
C4_InvalidSignature400 ==
  [][\A s \in Slots :
       ( /\ config.webhook_secret
         /\ reqs'[s] # reqs[s]
         /\ reqs'[s].sig = "invalid" )
       => /\ reqs'[s].pc = "done"
          /\ reqs'[s].resp = 400
          /\ transactions' = transactions]_vars

\* C4 amended: with the provider's API key and a signing secret configured, a
\* request whose signature does not verify is answered 400, never reaches
\* the switch and changes no transaction row.
C4_InvalidSignature400WithKey ==
  [][\A s \in Slots :
       ( /\ config.api_key_secret
         /\ config.webhook_secret
         /\ reqs'[s] # reqs[s]
         /\ reqs'[s].sig = "invalid" )
       => /\ reqs'[s].pc = "done"
          /\ reqs'[s].resp = 400
          /\ transactions' = transactions]_vars

\* a request with a signature that does not verify has been rejected with 400
\* while a transaction is stored and key and secret are configured
C4_Witness ==
  /\ config.api_key_secret
  /\ config.webhook_secret
  /\ Len(transactions) > 0
  /\ \E s \in Slots :
       reqs[s].sig = "invalid" /\ reqs[s].pc = "done" /\ reqs[s].resp = 400

\* C5: processing an event a second time, right after its first processing
\* has completed (it is applied and logged, and the matching row still holds
\* what it stored), leaves the transactions as they are, and no event has
\* more than one record.
C5_RedeliveryIdempotent ==
  [][/\ \A s \in Slots :
          ( /\ SwitchStep(s)
            /\ Verified(s)
            /\ applied[reqs[s].ev] >= 1
            /\ activity_logs[reqs[s].ev] >= 1
            /\ \A t \in matching(transactions, eventOf(s).ref) :
                 transactions[t].gateway_response.event = reqs[s].ev )
          => transactions' = transactions
     /\ \A e \in DOMAIN activity_logs : activity_logs'[e] <= 1]_vars

\* C6: the switch of a request whose event was already processed (applied
\* and logged) writes to no transaction, fee or wallet.
C6_DuplicateShortCircuit ==
  [][\A s \in Slots :
       ( /\ SwitchStep(s)
         /\ Verified(s)
         /\ applied[reqs[s].ev] >= 1
         /\ activity_logs[reqs[s].ev] >= 1 )
       => /\ applied' = applied
          /\ transactions' = transactions
          /\ fees' = fees
          /\ wallets' = wallets]_vars

\* C7: of two requests in flight at the same time that carry the same event,
\* at most one has applied it.
C7_ConcurrentAtMostOnce ==
  \A s1 \in Slots, s2 \in Slots :
    ( /\ s1 # s2
      /\ Verified(s1) /\ Verified(s2)
      /\ reqs[s1].pc = "log" /\ reqs[s2].pc = "log"
      /\ reqs[s1].ev = reqs[s2].ev )
    => applied[reqs[s1].ev] <= 1

\* C8: an update that is applied along a listed edge (S,T) yields status T;
\* when T is paid it adds exactly one Fee record of the transaction, credits
\* the merchant wallet's pending balance by net = amount - fee once, and
\* stamps the completion time.
C8_ListedEdgeEffects ==
  [][\A s \in Slots : \A t \in DOMAIN transactions :
       ( /\ SwitchStep(s)
         /\ Verified(s)
         /\ ~reqs'[s].error
         /\ t \in matching(transactions, eventOf(s).ref)
         /\ <<transactions[t].status, targetStatus(eventOf(s).type)>> \in Edges )
       => /\ transactions'[t].status = targetStatus(eventOf(s).type)
          /\ targetStatus(eventOf(s).type) = "paid" =>
               LET row == transactions[t]
                   net == row.amount - HalfUpFee(row.amount) IN
               /\ Cardinality({f \in fees' : f.transaction_id = t})
                    = Cardinality({f \in fees : f.transaction_id = t}) + 1
               /\ wallets'[row.user_id].pending_balance
                    = wallets[row.user_id].pending_balance + net
               /\ transactions'[t].settled_at # NULL]_vars

\* C9: a transaction's net_amount is defined exactly when its status is paid.
C9_NetAmountIffPaid ==
  \A t \in DOMAIN transactions :
    (transactions[t].net_amount # NULL) <=> (transactions[t].status = "paid")

\* C10: a paid transaction of 10000 has fee 250 and net 9750, one of 10001 has
\* fee 251, and fee + net = amount for every paid transaction.
C10_FeeHalfUp ==
  \A t \in DOMAIN transactions :
    LET row == transactions[t] IN
    row.status = "paid" =>
      /\ row.amount = 10000 => (row.fee_amount = 250 /\ row.net_amount = 9750)
      /\ row.amount = 10001 => row.fee_amount = 251
      /\ row.fee_amount + row.net_amount = row.amount

\* slot s inserts the log row and responds in this step
LogStep(s) == reqs[s].pc = "log" /\ reqs'[s].pc = "done"

\* no stored transaction carries the payment intent the event of slot s names
NoRowFor(s) ==
  \A t \in DOMAIN transactions :
    transactions[t].gateway_transaction_id # eventOf(s).ref

\* C11: an event whose provider reference matches no stored transaction
\* changes no transaction, fee or wallet record and is answered 200.
C11_UnknownTransactionAcked ==
  [][\A s \in Slots :
       /\ (SwitchStep(s) /\ NoRowFor(s)) =>
            /\ transactions' = transactions
            /\ fees' = fees
            /\ wallets' = wallets
       /\ (LogStep(s) /\ NoRowFor(s)) => reqs'[s].resp = 200]_vars

\* the switch has processed, without a store error, a verified event of a
\* handled type about a foreign payment intent while a transaction is stored
C11_Witness ==
  /\ Len(transactions) > 0
  /\ \E s \in Slots :
       /\ reqs[s].pc = "log"
       /\ Verified(s)
       /\ ~reqs[s].error
       /\ eventOf(s).type \in HandledTypes
       /\ eventOf(s).ref = ForeignRef

\* C12: a request whose transaction update the store failed is answered 500.
C12_StoreFailureAnswered500 ==
  [][\A s \in Slots :
       (LogStep(s) /\ reqs[s].error) => reqs'[s].resp = 500]_vars

\* C13: a transaction is paid exactly when a Fee record of it is stored.
C13_PaidIffFeeCommitted ==
  \A t \in DOMAIN transactions :
    (transactions[t].status = "paid") <=> (\E f \in fees : f.transaction_id = t)

\* the status of some transaction changes in this step
StatusChanged ==
  \E t \in DOMAIN transactions : transactions'[t].status # transactions[t].status

\* C14: an application that changes a transaction's status enqueues exactly
\* one domain event for outbound dispatch, an application that changes none
\* enqueues nothing.
C14_StatusChangeEnqueuesOne ==
  [][\A s \in Slots :
       (SwitchStep(s) /\ Verified(s)) =>
         enqueued' = enqueued + (IF StatusChanged THEN 1 ELSE 0)]_vars

\* C15: every attempt on a delivery is counted once, in order, starting at 1;
\* the row is delivered exactly when the attempt was answered 2xx; a row that
\* is delivered or has used the maximum attempt count is attempted no more.
C15_RetryUntilDeliveredOrExhausted ==
  [][\A e \in Endpoints :
       LET old == webhook_deliveries[e]
           new == webhook_deliveries'[e] IN
       /\ Len(new) >= Len(old)
       /\ \A i \in DOMAIN new :
            IF i \in DOMAIN old
            THEN new[i] # old[i] =>
                   /\ ~old[i].delivered
                   /\ old[i].attempts < MaxAttempts
                   /\ new[i].event = old[i].event
                   /\ new[i].attempts = old[i].attempts + 1
                   /\ new[i].delivered <=> (new[i].response_status = 200)
            ELSE /\ new[i].attempts = 1
                 /\ new[i].delivered <=> (new[i].response_status = 200)]_vars

\* a delivery answered 2xx at its fourth attempt, and one that exhausted the
\* attempts without a 2xx
C15_Witness ==
  \E e \in Endpoints :
    /\ \E i \in DOMAIN webhook_deliveries[e] :
         /\ webhook_deliveries[e][i].delivered
         /\ webhook_deliveries[e][i].attempts = 4
    /\ \E i \in DOMAIN webhook_deliveries[e] :
         /\ failed(webhook_deliveries[e][i])
         /\ webhook_deliveries[e][i].event \notin dueAny(queues[e])

\* C16: no delivery attempt is recorded for an endpoint that is deactivated.
C16_NoAttemptAfterDeactivation ==
  [][\A e \in Endpoints :
       ~webhooks[e] => webhook_deliveries'[e] = webhook_deliveries[e]]_vars

\* an endpoint deactivated after the second attempt of a delivery that is
\* still queued
C16_Witness ==
  \E e \in Endpoints :
    /\ ~webhooks[e]
    /\ queues[e] # <<>>
    /\ \E i \in DOMAIN webhook_deliveries[e] :
         /\ webhook_deliveries[e][i].event = Head(queues[e])
         /\ webhook_deliveries[e][i].attempts = 2
         /\ ~webhook_deliveries[e][i].delivered

\* C17: an attempt at an endpoint is for an event that no event still queued
\* at that endpoint was enqueued before (events are numbered in enqueue
\* order); nothing relates the attempts of different endpoints.
C17_PerEndpointOrder ==
  [][\A e \in Endpoints :
       LET old == webhook_deliveries[e]
           new == webhook_deliveries'[e] IN
       \A i \in DOMAIN new :
         (i \notin DOMAIN old \/ new[i] # old[i]) =>
           \A j \in DOMAIN queues[e] : queues[e][j] >= new[i].event]_vars

\* one endpoint is at the second event while the first event is still being
\* retried at the other
C17_Witness ==
  \E e1, e2 \in Endpoints :
    /\ queues[e1] = <<1, 2>>
    /\ \E i \in DOMAIN webhook_deliveries[e1] : webhook_deliveries[e1][i].event = 1
    /\ \E i \in DOMAIN webhook_deliveries[e2] : webhook_deliveries[e2][i].event = 2

\* some delivery is queued: not yet delivered and not yet given up
Pending == \E e \in Endpoints : queues[e] # <<>>

\* C18: a step of outbound delivery, whatever its outcome, leaves every
\* transaction, fee and wallet record as it is, and while a delivery is
\* queued every webhook request in progress can take its next step and a new
\* request can be received.
C18_OutboundIsolated ==
  /\ [][outbound' # outbound =>
          /\ transactions' = transactions
          /\ fees' = fees
          /\ wallets' = wallets]_vars
  /\ [](Pending =>
          /\ \A s \in Slots :
               /\ reqs[s].pc = "switch" => ENABLED Switch(s)
               /\ reqs[s].pc = "log" => ENABLED Log(s)
          /\ served < MaxDeliveries => \E s \in Slots : ENABLED Receive(s))

\* a verified event has changed a transaction and its request is about to
\* log and answer, while one delivery has exhausted its attempts and the
\* next one has just timed out
C18_Witness ==
  /\ \E s \in Slots :
       /\ reqs[s].pc = "log"
       /\ Verified(s)
       /\ applied[reqs[s].ev] >= 1
  /\ \E e \in Endpoints :
       /\ queues[e] # <<>>
       /\ \E i, j \in DOMAIN webhook_deliveries[e] :
            /\ failed(webhook_deliveries[e][i])
            /\ webhook_deliveries[e][j].event = Head(queues[e])
            /\ webhook_deliveries[e][j].response_status = NULL

\* the rows this step inserts into transactions
Inserted == DOMAIN transactions' \ DOMAIN transactions

InternalStatuses ==
  {"pending", "processing", "paid", "failed", "cancelled", "refunded", "chargeback"}

\* the mapping table of create-intent, provider status to internal status
MappingTable ==
  { <<"succeeded", "paid">>, <<"processing", "processing">>,
    <<"canceled", "cancelled">>, <<"payment_failed", "failed">>,
    <<"requires_payment_method", "pending">>,
    <<"requires_confirmation", "pending">> }

\* C20: a transaction no event has updated carries the status the mapping
\* table gives for the provider status of its intent, pending when the table
\* has no entry for it, and always an internal status.
C20_MappingTotal ==
  \A t \in DOMAIN transactions :
    transactions[t].gateway_response.event = 0 =>
      LET k == transactions[t].gateway_response.kind
          st == transactions[t].status IN
      /\ st \in InternalStatuses
      /\ \A m \in MappingTable : m[1] = k => st = m[2]
      /\ (\A m \in MappingTable : m[1] # k) => st = "pending"

\* a transaction inserted for an intent in a status the table does not list
C20_Witness ==
  \E t \in DOMAIN transactions :
    /\ transactions[t].gateway_response = [event |-> 0, kind |-> "requires_action"]
    /\ transactions[t].status = "pending"

\* the statuses no listed edge leaves
TerminalStatuses ==
  {st \in InternalStatuses : \A e \in Edges : e[1] # st}

\* C21: when a transaction is in a terminal status and an event other than
\* the one stored in it, mapped to that same status, is processed, no field
\* of the transaction changes.
C21_TerminalReapplyNoOp ==
  [][\A s \in Slots :
       (SwitchStep(s) /\ Verified(s)) =>
         \A t \in DOMAIN transactions :
           ( /\ transactions[t].gateway_transaction_id = eventOf(s).ref
             /\ transactions[t].status \in TerminalStatuses
             /\ transactions[t].status = targetStatus(eventOf(s).type)
             /\ transactions[t].gateway_response.event # reqs[s].ev )
           => transactions'[t] = transactions[t]]_vars

\* C22: a step in which a transaction enters refunded or chargeback stamps
\* its refunded_at with the time of the step, debits the wallet of its user
\* and writes a row to the ledger (table fees).
C22_RefundSideEffects ==
  [][\A s \in Slots, t \in DOMAIN transactions :
       ( /\ SwitchStep(s)
         /\ Verified(s)
         /\ transactions'[t].status \in {"refunded", "chargeback"}
         /\ transactions'[t].status # transactions[t].status )
       => /\ transactions'[t].refunded_at = now'
          /\ wallets'[transactions[t].user_id].balance
               < wallets[transactions[t].user_id].balance
          /\ fees' # fees]_vars

\* C23: every amount of every wallet is at least 0 in every state, and a
\* step that changes a wallet also changes the status of a transaction.
C23_WalletsNonNegativeAndFramed ==
  /\ [](\A u \in Users :
          /\ wallets[u].balance >= 0
          /\ wallets[u].pending_balance >= 0
          /\ wallets[u].blocked_balance >= 0)
  /\ [][wallets' # wallets => StatusChanged]_vars

\* a webhook has refunded a transaction and a create-payment request has
\* been answered, with the wallet of the transaction's user as it was
C23_Witness ==
  /\ pay.status # 0
  /\ \E t \in DOMAIN transactions :
       /\ transactions[t].status = "refunded"
       /\ transactions[t].gateway_response.event >= 1
       /\ wallets[transactions[t].user_id] = NewWallet

\* slot s takes a new request in this step
Taken(s) ==
  /\ free(reqs[s])
  /\ \A s2 \in Slots : s2 < s => ~free(reqs[s2])
  /\ served' = served + 1

\* C24: a request rejected for its signature, and a request whose store
\* update failed, each leave a row in the audit trail (table activity_logs)
\* in the step that answers them.
C24_EveryAttemptAudited ==
  [][\A s \in Slots :
       /\ (Taken(s) /\ reqs'[s].pc = "done" /\ reqs'[s].resp = 400) =>
            activity_logs' # activity_logs
       /\ (LogStep(s) /\ reqs[s].error) =>
            activity_logs' # activity_logs]_vars

\* C25: with a signing secret configured, a switch that changes a transaction
\* belongs to a request whose signature verified against the secret.
C25_AppliedOnlyIfVerified ==
  [][\A s \in Slots :
       (SwitchStep(s) /\ config.webhook_secret /\ ~RowsUnchanged) =>
         reqs[s].sig = "valid"]_vars

\* the status values CREATE TABLE transactions accepts (its CHECK)
StatusCheck ==
  {"pending", "processing", "completed", "failed", "refunded", "cancelled"}

\* C26: every status create-payment inserts and every status the webhook
\* handler writes is one the CHECK of table transactions accepts.
C26_WrittenStatusAccepted ==
  [][\A t \in DOMAIN transactions' :
       (t \in Inserted \/ transactions'[t].status # transactions[t].status) =>
         transactions'[t].status \in StatusCheck]_vars

\* C27: the switch of a request changes only transactions whose
\* gateway_transaction_id is the payment intent the event names, at most one
\* of them, and none when the event names no payment intent; it inserts and
\* deletes none.
C27_EventFrame ==
  [][\A s \in Slots :
       SwitchStep(s) =>
         LET changed == {t \in DOMAIN transactions :
                           transactions'[t] # transactions[t]} IN
         /\ DOMAIN transactions' = DOMAIN transactions
         /\ \A t \in changed :
              /\ eventOf(s).ref # NULL
              /\ transactions[t].gateway_transaction_id = eventOf(s).ref
         /\ Cardinality(changed) <= 1]_vars

\* of two stored transactions an event has updated the one it names, and the
\* other is as it was inserted
C27_Witness ==
  /\ Len(transactions) = 2
  /\ \E t, o \in DOMAIN transactions :
       /\ transactions[t].gateway_response.event >= 1
       /\ transactions[o].gateway_response.event = 0
  /\ \E s \in Slots : reqs[s].pc = "log" /\ applied[reqs[s].ev] >= 1

\* C28: every payment intent created at the provider has exactly one stored
\* transaction carrying its id.
C28_NoOrphanIntent ==
  \A i \in intents :
    Cardinality({t \in DOMAIN transactions :
                   transactions[t].gateway_transaction_id = i}) = 1

\* a create-payment request is answered in this step
CreateStep == pay' # pay \/ intents' # intents \/ Inserted # {}

\* C29: a create-payment request without an Authorization header that
\* resolves to a user, or with the provider configuration missing, inactive
\* or without secret key, creates no intent, stores no transaction and is
\* answered 400.
C29_ChecksBeforeEffects ==
  [][( /\ CreateStep
       /\ \/ pay'.auth # "ok"
          \/ ~config.exists
          \/ ~config.is_active
          \/ ~config.api_key_secret )
     => /\ intents' = intents
        /\ transactions' = transactions
        /\ pay'.status = 400]_vars

\* with the provider fully configured, a request whose token resolved to no
\* user has been answered
C29_Witness ==
  /\ config.exists /\ config.is_active /\ config.api_key_secret
  /\ pay = [auth |-> "no_user", status |-> 400]
  /\ intents = {}
  /\ transactions = <<>>

\* the event of slot s is of none of the five types the switch names
Unhandled(s) ==
  eventOf(s).type \notin
    {"payment_intent.succeeded", "payment_intent.payment_failed",
     "payment_intent.canceled", "charge.refunded", "charge.dispute.created"}

\* C30: an event of a type outside the five changes no transaction in the
\* switch, and the step that answers it adds one activity_logs row carrying
\* its event id and answers 200.
C30_UnhandledTypeLoggedOnly ==
  [][\A s \in Slots :
       /\ (SwitchStep(s) /\ Unhandled(s)) => transactions' = transactions
       /\ (LogStep(s) /\ Unhandled(s)) =>
            /\ activity_logs'[reqs[s].ev] = activity_logs[reqs[s].ev] + 1
            /\ reqs'[s].resp = 200]_vars

\* the switch has passed a verified customer.created event that names the
\* payment intent of a stored transaction
C30_Witness ==
  \E s \in Slots :
    /\ reqs[s].pc = "log"
    /\ Verified(s)
    /\ eventOf(s).type = "customer.created"
    /\ \E t \in DOMAIN transactions :
         transactions[t].gateway_transaction_id = eventOf(s).ref

====
